---- MODULE Spec2Model ----
(***************************************************************************)
(* Model of python/service/streaming_recognizer.py:                        *)
(*   - RequestIterator: the thread-safe request iterator (one              *)
(*     configuration request, then audio-frame requests), pulled by        *)
(*     several threads through __next__;                                   *)
(*   - StreamingRecognizer.recognize_audio_content: the loop that reduces  *)
(*     the streamed responses to one result.                               *)
(* SpecP runs the iterator (FairSpecP: its threads keep running), SpecA    *)
(* runs the response loop.                                                 *)
(***************************************************************************)
EXTENDS Integers, Sequences, FiniteSets, TLC

VARIABLES
    \* ---- RequestIterator fields (lines 12-25)
    audio_content,       \* audio["samples"]: the byte buffer
    audio_frame_rate,    \* audio["frame_rate"]
    lock,                \* threading.Lock(): the thread holding it, or NoThread
    is_initial_request,  \* which request builder __next__ dispatches to
    data_index,          \* cursor into audio_content
    \* ---- one entry per thread calling __next__
    pc,                  \* position of the thread inside __next__
    data,                \* the local `data` of _normal_request
    data_from,           \* the value of data_index that `data` was sliced at
    \* ---- observation of the iterator
    calls,               \* number of __next__ calls made so far
    log,                 \* one record per completed pull, in the order they took effect
    \* ---- StreamingRecognizer.recognize_audio_content
    time_offsets,        \* settings.time_offsets()
    apc,                 \* "idle", "loop", "returned", "raised"
    received,            \* the responses iterated so far, in arrival order
    confirmed_results,
    alignment,
    confidence,
    session_result,      \* the returned list's single element, or NoResult
    raised               \* the exception that left the function, or "none"

pvars == <<audio_content, audio_frame_rate, lock, is_initial_request, data_index,
           pc, data, data_from, calls, log>>
avars == <<apc, received, confirmed_results, alignment, confidence,
           session_result, raised>>
vars == <<pvars, time_offsets, avars>>

----------------------------------------------------------------------------
\* Bounds of the model

NumThreads == 3
MaxCalls == 6
MaxFrames == 2
MaxResponses == 3

----------------------------------------------------------------------------
\* RequestIterator

frame_len == 200
sample_width == 2

Threads == 1..NumThreads
NoThread == 0

FrameRates == {999, 1000, 2000}

\* frame_samples_size, line 17
FrameSamplesSize(rate) == (rate \div 1000) * frame_len * sample_width

frame_samples_size == FrameSamplesSize(audio_frame_rate)

\* Buffer lengths around the frame boundaries of the smallest non-zero frame
Lengths ==
    {0, 1} \cup { k * FrameSamplesSize(1000) + d : k \in 1..MaxFrames, d \in {-1, 0, 1} }

\* A buffer whose bytes tell their position (mod 256)
Samples(len) == [i \in 1..len |-> (i - 1) % 256]

\* min(a, b), as used on line 84
MinLatest(a, b) == b
Min(a, b) == IF a <= b THEN a ELSE b

\* Python's s[lo : hi] for 0 <= lo <= hi: clipped to the sequence
Slice(s, lo, hi) ==
    IF lo >= Len(s) THEN <<>> ELSE SubSeq(s, lo + 1, Min(hi, Len(s)))

\* settings object handed to the constructor
Settings ==
    [time_offsets |-> time_offsets, single_utterance |-> FALSE,
     interim_results |-> FALSE, timeouts_map |-> << <<"no-input-timeout", 5000>> >>]

\* StreamingRecognizer.build_configuration_request, lines 102-125
build_configuration_request(sampling_rate, settings) ==
    [kind |-> "streaming_config",
     encoding |-> "LINEAR16",
     sample_rate_hertz |-> sampling_rate,
     language_code |-> "pl-PL",
     enable_word_time_offsets |-> settings.time_offsets,
     max_alternatives |-> 1,
     single_utterance |-> settings.single_utterance,
     interim_results |-> settings.interim_results,
     config_fields |-> [i \in DOMAIN settings.timeouts_map |->
                          [key |-> settings.timeouts_map[i][1],
                           value |-> ToString(settings.timeouts_map[i][2])]]]

\* dictation_asr_pb2.StreamingRecognizeRequest(audio_content=data), line 37
AudioRequest(d) == [kind |-> "audio_content", audio_content |-> d]

\* the outcome of a pull that raised StopIteration
StopIteration == [kind |-> "StopIteration"]

\* `with self.lock:` may enter, line 43
LockFreeNoLock == TRUE
LockFree == lock = NoThread

\* the condition of line 35
StopConditionLate(index, len) == index - frame_samples_size > len
StopConditionOnce(index, len) == index >= len /\ index - frame_samples_size < len
StopCondition(index, len) == index >= len

\* line 34: self.data_index += self.frame_samples_size
NextIndexAssigned(index) == frame_samples_size
NextIndex(index) == index + frame_samples_size

\* the lock after the `with` block of thread t is left, line 43
ReleasedOnReturnOnly(t) ==
    IF log # <<>> /\ log[Len(log)].out = StopIteration THEN t ELSE NoThread
Released(t) == NoThread

\* the iterator's steps leave the response loop alone
AggregatorUnchanged == UNCHANGED <<time_offsets, avars>>

\* RequestIterator.__init__, lines 10-25
InitIterator ==
    /\ audio_frame_rate \in FrameRates
    /\ \E len \in Lengths : audio_content = Samples(len)
    /\ lock = NoThread
    /\ is_initial_request = TRUE
    /\ data_index = 0
    /\ pc = [t \in Threads |-> "idle"]
    /\ data = [t \in Threads |-> <<>>]
    /\ data_from = [t \in Threads |-> 0]
    /\ calls = 0
    /\ log = <<>>

\* a thread calls next() on the iterator
Call(t) ==
    /\ AggregatorUnchanged
    /\ pc[t] = "idle"
    /\ calls < MaxCalls
    /\ calls' = calls + 1
    /\ pc' = [pc EXCEPT ![t] = "acquire"]
    /\ UNCHANGED <<audio_content, audio_frame_rate, lock, is_initial_request,
                   data_index, data, data_from, log>>

\* line 43: with self.lock (enter)
Acquire(t) ==
    /\ AggregatorUnchanged
    /\ pc[t] = "acquire"
    /\ LockFree
    /\ lock' = t
    /\ pc' = [pc EXCEPT ![t] = "dispatch"]
    /\ UNCHANGED <<audio_content, audio_frame_rate, is_initial_request,
                   data_index, data, data_from, calls, log>>

\* line 44: self.request_builder[self.is_initial_request]
Dispatch(t) ==
    /\ AggregatorUnchanged
    /\ pc[t] = "dispatch"
    /\ pc' = [pc EXCEPT ![t] = IF is_initial_request THEN "initial" ELSE "normal33"]
    /\ UNCHANGED <<audio_content, audio_frame_rate, lock, is_initial_request,
                   data_index, data, data_from, calls, log>>

\* what a pull leaves in the log: the builder it was dispatched to, the byte
\* range [lo, hi) of its slice, the cursor before and after its write, the
\* flag after it, and the request returned (or StopIteration)
Pull(builder, lo, hi, before, after, flag, out) ==
    [builder |-> builder, lo |-> lo, hi |-> hi, before |-> before,
     after |-> after, initial_after |-> flag, out |-> out]

\* the write of line 29
InitialFlagKept == TRUE
InitialFlagAfter == FALSE

\* _initial_request, lines 27-30, and the return through line 44
InitialRequest(t) ==
    /\ AggregatorUnchanged
    /\ pc[t] = "initial"
    /\ is_initial_request' = InitialFlagAfter
    /\ log' = Append(log, Pull("initial", data_index, data_index, data_index,
                               data_index, is_initial_request',
                               build_configuration_request(audio_frame_rate, Settings)))
    /\ pc' = [pc EXCEPT ![t] = "release"]
    /\ UNCHANGED <<audio_content, audio_frame_rate, lock, data_index, data,
                   data_from, calls>>

\* line 33
NormalSlice(t) ==
    /\ AggregatorUnchanged
    /\ pc[t] = "normal33"
    /\ data' = [data EXCEPT ![t] =
                  Slice(audio_content, data_index, data_index + frame_samples_size)]
    /\ data_from' = [data_from EXCEPT ![t] = data_index]
    /\ pc' = [pc EXCEPT ![t] = "normal34"]
    /\ UNCHANGED <<audio_content, audio_frame_rate, lock, is_initial_request,
                   data_index, calls, log>>

\* lines 34-37: advance the cursor, then StopIteration or the audio request
NormalAdvance(t) ==
    /\ AggregatorUnchanged
    /\ pc[t] = "normal34"
    /\ data_index' = NextIndex(data_index)
    /\ log' = Append(log, Pull("normal", data_from[t], data_from[t] + Len(data[t]),
                               data_index, data_index', is_initial_request,
                               IF StopCondition(data_index', Len(audio_content))
                               THEN StopIteration
                               ELSE AudioRequest(data[t])))
    /\ data' = [data EXCEPT ![t] = <<>>]
    /\ data_from' = [data_from EXCEPT ![t] = 0]
    /\ pc' = [pc EXCEPT ![t] = "release"]
    /\ UNCHANGED <<audio_content, audio_frame_rate, lock, is_initial_request, calls>>

\* line 43: with self.lock (exit, on return and on StopIteration alike)
Release(t) ==
    /\ AggregatorUnchanged
    /\ pc[t] = "release"
    /\ lock' = Released(t)
    /\ pc' = [pc EXCEPT ![t] = "idle"]
    /\ UNCHANGED <<audio_content, audio_frame_rate, is_initial_request,
                   data_index, data, data_from, calls, log>>

----------------------------------------------------------------------------
\* StreamingRecognizer.recognize_audio_content


NoResult == [none |-> TRUE]

\* confidence = 1.0 (line 68), in hundredths
ConfidenceOne == 100

\* word entries of an alternative: word, start_time, end_time (times in tenths of a second)
Word(w, s, e) == [word |-> w, start_time |-> s, end_time |-> e]

Alternative(t, c, ws) == [transcript |-> t, confidence |-> c, words |-> ws]

Hello == Alternative("hello", 90, <<Word("hi", 0, 5), Word("<eps>", 5, 5), Word("there", 5, 10)>>)
World == Alternative("world", 80, <<Word("world", 10, 14)>>)
Silence == Alternative("", 100, <<Word("<eps>", 14, 20)>>)
\* a confidence outside [0, 1]: nothing in the loop validates it
Odd == Alternative("odd", -10, <<Word("odd", 20, 22)>>)

Result(final, alts) == [is_final |-> final, alternatives |-> alts]

Response(code, results) == [error |-> [code |-> code], results |-> results]

\* the responses the server may stream
Responses ==
    { Response(3, <<>>),
      Response(3, <<Result(TRUE, <<World>>)>>),
      Response(0, <<>>),
      Response(0, <<Result(TRUE, <<Hello>>)>>),
      Response(0, <<Result(TRUE, <<World>>)>>),
      Response(0, <<Result(TRUE, <<Silence>>)>>),
      Response(0, <<Result(TRUE, <<Odd>>)>>),
      Response(0, <<Result(FALSE, <<Hello>>)>>),
      Response(0, <<Result(FALSE, <<World>>), Result(TRUE, <<Hello>>)>>),
      Response(0, <<Result(TRUE, <<>>)>>) }

\* line 71: if recognition.error.code
HasErrorNever(r) == FALSE
HasError(r) == r.error.code # 0

\* line 74: recognition.results is not None and len(recognition.results) > 0
HasResults(r) == Len(r.results) > 0

\* line 79: the words that are kept
KeptAlways(w) == TRUE
Kept(w) == w.word # "<eps>"

\* lines 78-81: the for loop over the words, appending to both lists
RECURSIVE AppendWords(_, _)
AppendWords(acc, words) ==
    IF words = <<>> THEN acc
    ELSE LET w == Head(words)
         IN  AppendWords(
                 IF Kept(w)
                 THEN [confirmed_results |-> Append(acc.confirmed_results, w.word),
                       alignment |-> Append(acc.alignment, <<w.start_time, w.end_time>>)]
                 ELSE acc,
                 Tail(words))

\* ' '.join(confirmed_results), line 90
RECURSIVE Join(_)
Join(strs) ==
    IF strs = <<>> THEN ""
    ELSE IF Len(strs) = 1 THEN strs[1]
    ELSE strs[1] \o " " \o Join(Tail(strs))

\* lines 88-99: the element of the returned list
BuildResultNoPlaceholder(results, align, conf) ==
    [transcript |-> Join(results), alignment |-> align, confidence |-> conf]
BuildResult(results, align, conf) ==
    [transcript |-> Join(results),
     alignment |-> IF time_offsets /\ align # <<>> THEN align ELSE << <<>> >>,
     confidence |-> conf]

\* the response loop's steps leave the iterator alone
IteratorUnchanged == UNCHANGED pvars

\* nothing of the response loop has started
AggregatorIdle ==
    /\ apc = "idle"
    /\ received = <<>>
    /\ confirmed_results = <<>>
    /\ alignment = <<>>
    /\ confidence = 0
    /\ session_result = NoResult
    /\ raised = "none"

\* the iterator as constructed by recognize (line 54), not pulled in SpecA
IteratorParked ==
    /\ audio_frame_rate = 1000
    /\ audio_content = <<>>
    /\ lock = NoThread
    /\ is_initial_request = TRUE
    /\ data_index = 0
    /\ pc = [t \in Threads |-> "idle"]
    /\ data = [t \in Threads |-> <<>>]
    /\ data_from = [t \in Threads |-> 0]
    /\ calls = 0
    /\ log = <<>>

\* recognize_audio_content up to the loop, lines 58-68
InitA ==
    /\ IteratorParked
    /\ time_offsets \in BOOLEAN
    /\ apc = "loop"
    /\ received = <<>>
    /\ confirmed_results = <<>>
    /\ alignment = <<>>
    /\ confidence = ConfidenceOne
    /\ session_result = NoResult
    /\ raised = "none"

\* the loop takes the next response from the stream, line 70
Takes(r) ==
    /\ apc = "loop"
    /\ Len(received) < MaxResponses
    /\ received' = Append(received, r)

\* lines 71-72: a response with an error code is printed
ErrorResponse(r) ==
    /\ IteratorUnchanged
    /\ Takes(r)
    /\ HasError(r)
    /\ UNCHANGED <<time_offsets, apc, confirmed_results, alignment, confidence,
                   session_result, raised>>

\* line 74 false: a response without results
NoResults(r) ==
    /\ IteratorUnchanged
    /\ Takes(r)
    /\ ~HasError(r)
    /\ ~HasResults(r)
    /\ UNCHANGED <<time_offsets, apc, confirmed_results, alignment, confidence,
                   session_result, raised>>

\* lines 76-84: the first result is final
FinalResult(r) ==
    /\ IteratorUnchanged
    /\ Takes(r)
    /\ ~HasError(r)
    /\ HasResults(r)
    /\ r.results[1].is_final
    /\ r.results[1].alternatives # <<>>
    /\ LET first == r.results[1]
           acc == [confirmed_results |-> confirmed_results, alignment |-> alignment]
           new == IF time_offsets
                  THEN AppendWords(acc, first.alternatives[1].words)
                  ELSE [acc EXCEPT !.confirmed_results =
                                       Append(@, first.alternatives[1].transcript)]
       IN  /\ confirmed_results' = new.confirmed_results
           /\ alignment' = new.alignment
           /\ confidence' = Min(confidence, first.alternatives[1].confidence)
    /\ UNCHANGED <<time_offsets, apc, session_result, raised>>

\* lines 78 and 83: first.alternatives[0] of a final result without alternatives
FinalWithoutAlternative(r) ==
    /\ IteratorUnchanged
    /\ Takes(r)
    /\ ~HasError(r)
    /\ HasResults(r)
    /\ r.results[1].is_final
    /\ r.results[1].alternatives = <<>>
    /\ apc' = "raised"
    /\ raised' = "IndexError"
    /\ UNCHANGED <<time_offsets, confirmed_results, alignment, confidence,
                   session_result>>

\* lines 85-86: the first result is not final, it is printed
InterimResultAccumulates(r) ==
    /\ IteratorUnchanged
    /\ Takes(r)
    /\ ~HasError(r)
    /\ HasResults(r)
    /\ ~r.results[1].is_final
    /\ confirmed_results' = Append(confirmed_results, r.results[1].alternatives[1].transcript)
    /\ confidence' = Min(confidence, r.results[1].alternatives[1].confidence)
    /\ UNCHANGED <<time_offsets, apc, alignment, session_result, raised>>
InterimResult(r) ==
    /\ IteratorUnchanged
    /\ Takes(r)
    /\ ~HasError(r)
    /\ HasResults(r)
    /\ ~r.results[1].is_final
    /\ UNCHANGED <<time_offsets, apc, confirmed_results, alignment, confidence,
                   session_result, raised>>

\* line 70: the stream ends; lines 88-99 build and return the result
StreamEnd ==
    /\ IteratorUnchanged
    /\ apc = "loop"
    /\ apc' = "returned"
    /\ session_result' = BuildResult(confirmed_results, alignment, confidence)
    /\ UNCHANGED <<time_offsets, received, confirmed_results, alignment,
                   confidence, raised>>

\* line 70: the stream's iterator raises grpc.RpcError; nothing catches it
TransportError ==
    /\ IteratorUnchanged
    /\ apc = "loop"
    /\ apc' = "raised"
    /\ raised' = "RpcError"
    /\ UNCHANGED <<time_offsets, received, confirmed_results, alignment,
                   confidence, session_result>>

NextA ==
    \/ \E r \in Responses :
          \/ ErrorResponse(r)
          \/ NoResults(r)
          \/ FinalResult(r)
          \/ FinalWithoutAlternative(r)
          \/ InterimResult(r)
    \/ StreamEnd
    \/ TransportError

SpecA == InitA /\ [][NextA]_vars

InitP ==
    /\ InitIterator
    /\ time_offsets = FALSE
    /\ AggregatorIdle

NextP ==
    \E t \in Threads :
        \/ Call(t)
        \/ Acquire(t)
        \/ Dispatch(t)
        \/ InitialRequest(t)
        \/ NormalSlice(t)
        \/ NormalAdvance(t)
        \/ Release(t)

SpecP == InitP /\ [][NextP]_vars

\* the steps of thread t
ThreadStep(t) ==
    \/ Call(t)
    \/ Acquire(t)
    \/ Dispatch(t)
    \/ InitialRequest(t)
    \/ NormalSlice(t)
    \/ NormalAdvance(t)
    \/ Release(t)

\* the iterator pulled by threads that keep running: a thread that can take
\* a step (its next call, the lock when it is free, the next line) takes it
FairSpecP == SpecP /\ \A t \in Threads : WF_vars(ThreadStep(t))

----------------------------------------------------------------------------
\* Properties of the request iterator

\* the outcomes of the pulls, in the order the pulls took effect
Outs == [i \in DOMAIN log |-> log[i].out]

IsConfig(out) == out.kind = "streaming_config"
IsAudio(out) == out.kind = "audio_content"
IsStop(out) == out.kind = "StopIteration"

Stopped == \E i \in DOMAIN log : IsStop(log[i].out)

\* the pull that first signalled end-of-sequence
FirstStop == CHOOSE i \in DOMAIN log :
                 IsStop(log[i].out) /\ \A j \in 1..(i - 1) : ~IsStop(log[j].out)

\* the audio payloads of the first n pulls, concatenated in emission order
RECURSIVE Payload(_)
Payload(n) ==
    IF n = 0 THEN <<>>
    ELSE Payload(n - 1) \o (IF IsAudio(log[n].out) THEN log[n].out.audio_content ELSE <<>>)

CeilDiv(a, b) == (a + b - 1) \div b

\* C1: with F > 0, once end-of-sequence has been signalled, the audio payloads
\* emitted before it, concatenated in emission order, are the whole buffer.
C1_PayloadsCoverBuffer ==
    (frame_samples_size > 0 /\ Stopped) => Payload(FirstStop) = audio_content

\* C2: with F > 0, exactly 1 + ceil(L/F) chunks precede end-of-sequence: one
\* configuration request, then ceil(L/F) audio requests.
C2_ChunkCount ==
    (frame_samples_size > 0 /\ Stopped) =>
        /\ FirstStop - 1 = 1 + CeilDiv(Len(audio_content), frame_samples_size)
        /\ IsConfig(log[1].out)
        /\ \A i \in 2..(FirstStop - 1) : IsAudio(log[i].out)

\* the threads inside the `with self.lock:` block
InCritical == { t \in Threads : pc[t] \in {"dispatch", "initial", "normal33", "normal34", "release"} }

\* C3: the configuration request is emitted exactly once and first: pull 1
\* and no other returns it; that pull finds the flag set and clears it, leaves
\* the cursor at 0 and carries no audio bytes.
C3_ConfigurationOnceAndFirst ==
    /\ \A i \in DOMAIN log : IsConfig(log[i].out) <=> i = 1
    /\ \A i \in DOMAIN log : log[i].builder = "initial" <=> i = 1
    /\ \A i \in DOMAIN log :
          log[i].builder = "initial" =>
             /\ IsConfig(log[i].out)
             /\ "audio_content" \notin DOMAIN log[i].out
             /\ log[i].before = 0 /\ log[i].after = 0
             /\ log[i].initial_after = FALSE
    /\ (log = <<>>) => (is_initial_request /\ data_index = 0)
    /\ (log # <<>>) => ~is_initial_request

C3_Witness ==
    /\ Len(log) >= 3
    /\ log[2].hi > log[2].lo
    /\ IsConfig(log[1].out)
    /\ IsAudio(log[2].out)
    /\ \E t \in Threads : pc[t] = "acquire"

\* C4: pulls exclude one another: at most one thread is inside the locked
\* block, no two pulls are dispatched to the initial builder, and no two
\* returned audio slices share a byte.
C4_MutualExclusion ==
    /\ Cardinality(InCritical) <= 1
    /\ \A t \in InCritical : lock = t
    /\ \A i, j \in DOMAIN log :
          i < j =>
             /\ ~(log[i].builder = "initial" /\ log[j].builder = "initial")
             /\ (IsAudio(log[i].out) /\ IsAudio(log[j].out)) =>
                   (log[i].hi <= log[j].lo \/ log[j].hi <= log[i].lo)

C4_Witness ==
    /\ \E t, u \in Threads : pc[t] = "normal34" /\ pc[u] = "acquire"
    /\ \E i, j \in DOMAIN log :
          i < j /\ IsAudio(log[i].out) /\ IsAudio(log[j].out) /\ log[i].hi > log[i].lo

\* what n pulls made one after the other by a single thread return
\* (lines 27-44 run without interleaving)
RECURSIVE Sequential(_, _, _)
Sequential(n, initial, index) ==
    IF n = 0 THEN <<>>
    ELSE IF initial
         THEN <<build_configuration_request(audio_frame_rate, Settings)>>
              \o Sequential(n - 1, FALSE, index)
         ELSE LET d == Slice(audio_content, index, index + frame_samples_size)
                  next == index + frame_samples_size
              IN  <<IF next >= Len(audio_content) THEN StopIteration ELSE AudioRequest(d)>>
                  \o Sequential(n - 1, FALSE, next)

\* C5: the outcomes of the pulls of N threads, in the order the pulls took
\* effect, are the outcomes of as many pulls by one thread.
C5_SameAsSingleThreaded ==
    Outs = Sequential(Len(log), TRUE, 0)

C5_Witness ==
    /\ Len(log) >= 4
    /\ IsAudio(log[2].out) /\ IsAudio(log[3].out) /\ IsStop(log[4].out)
    /\ \E t, u \in Threads : pc[t] = "release" /\ pc[u] = "acquire"

\* C6: an empty buffer with F > 0: the first pull returns the configuration
\* request, the second signals end-of-sequence, no audio request is emitted.
C6_EmptyBuffer ==
    (Len(audio_content) = 0 /\ frame_samples_size > 0) =>
        /\ \A i \in DOMAIN log : ~IsAudio(log[i].out)
        /\ Len(log) >= 1 => IsConfig(log[1].out)
        /\ Len(log) >= 2 => IsStop(log[2].out)

C6_Witness ==
    /\ Len(audio_content) = 0
    /\ frame_samples_size > 0
    /\ Len(log) >= 2

\* C7: with a frame size of 0 the iterator fails before streaming starts: no
\* pull is served, so no audio request is ever emitted.
C7_ZeroFrameFailsFast ==
    frame_samples_size = 0 => \A i \in DOMAIN log : ~IsAudio(log[i].out)

----------------------------------------------------------------------------
\* Properties of the response loop

\* the responses whose processing has completed
Processed ==
    IF raised = "IndexError" THEN SubSeq(received, 1, Len(received) - 1) ELSE received

\* an error-free response whose first result is final
IsErrorFreeFinal(r) ==
    r.error.code = 0 /\ r.results # <<>> /\ r.results[1].is_final

\* the first-alternative transcripts of the error-free final responses of rs
RECURSIVE FinalTranscripts(_)
FinalTranscripts(rs) ==
    IF rs = <<>> THEN <<>>
    ELSE FinalTranscripts(SubSeq(rs, 1, Len(rs) - 1))
         \o (IF IsErrorFreeFinal(rs[Len(rs)])
             THEN <<rs[Len(rs)].results[1].alternatives[1].transcript>>
             ELSE <<>>)

\* the entries of strs with one space between neighbours
RECURSIVE SpaceSeparated(_)
SpaceSeparated(strs) ==
    IF strs = <<>> THEN ""
    ELSE IF Len(strs) = 1 THEN strs[1]
    ELSE SpaceSeparated(SubSeq(strs, 1, Len(strs) - 1)) \o " " \o strs[Len(strs)]

\* the non-sentinel words of the first alternative of the error-free final
\* responses of rs
RECURSIVE FinalWords(_)
FinalWords(rs) ==
    IF rs = <<>> THEN <<>>
    ELSE FinalWords(SubSeq(rs, 1, Len(rs) - 1))
         \o (IF IsErrorFreeFinal(rs[Len(rs)])
             THEN SelectSeq(rs[Len(rs)].results[1].alternatives[1].words,
                            LAMBDA w : w.word # "<eps>")
             ELSE <<>>)

\* C8: when a transport error ends the response sequence, the result built
\* from the responses processed so far is still returned.
C8_PartialResultReturned ==
    raised = "RpcError" =>
        session_result = BuildResult(confirmed_results, alignment, confidence)

\* C9: with time offsets disabled, the accumulated entries are the transcripts
\* of the error-free final responses in arrival order, one per response, and
\* the returned transcript is these entries separated by single spaces.
C9_TranscriptOfFinals ==
    (apc # "idle" /\ ~time_offsets) =>
        /\ confirmed_results = FinalTranscripts(Processed)
        /\ apc = "returned" =>
              session_result.transcript = SpaceSeparated(FinalTranscripts(received))

C9_Witness ==
    /\ apc = "returned"
    /\ ~time_offsets
    /\ session_result.transcript = "hello world"
    /\ \E i \in DOMAIN received :
          received[i].error.code # 0 /\ received[i].results # <<>>

\* C10: with time offsets enabled, after every response the word list and the
\* alignment list are the texts and the (start, end) pairs of the non-sentinel
\* words of the final results (the first result of an error-free response,
\* marked final: the ones line 76 lets through), in arrival order, entry for
\* entry; '<eps>' is in neither list.
C10_WordsAndAlignment ==
    (apc # "idle" /\ time_offsets) =>
        LET ws == FinalWords(Processed)
        IN  /\ Len(confirmed_results) = Len(ws)
            /\ Len(alignment) = Len(ws)
            /\ \A i \in DOMAIN ws :
                  /\ confirmed_results[i] = ws[i].word
                  /\ alignment[i] = <<ws[i].start_time, ws[i].end_time>>
            /\ \A i \in DOMAIN confirmed_results : confirmed_results[i] # "<eps>"

C10_Witness ==
    /\ time_offsets
    /\ apc = "returned"
    /\ confirmed_results = <<"hi", "there", "world">>
    /\ alignment = << <<0, 5>>, <<5, 10>>, <<10, 14>> >>
    /\ session_result.transcript = "hi there world"
    /\ Len(received) = MaxResponses

\* the first-alternative confidences of the error-free final responses of rs
FinalConfidences(rs) ==
    { rs[i].results[1].alternatives[1].confidence :
          i \in { j \in DOMAIN rs : IsErrorFreeFinal(rs[j]) } }

\* the least element of a non-empty set of numbers
Least(S) == CHOOSE m \in S : \A x \in S : m <= x

\* every confidence the server sent so far lies in [0, 1]
ConfidencesInRange ==
    \A i \in DOMAIN received : \A j \in DOMAIN received[i].results :
        \A k \in DOMAIN received[i].results[j].alternatives :
            LET c == received[i].results[j].alternatives[k].confidence
            IN  0 <= c /\ c <= ConfidenceOne

\* C11: in both modes the confidence is the minimum of 1.0 and the
\* confidences of the error-free final results, it is what the function
\* returns, it stays in [0, 1] while every server confidence does, and no step
\* increases it.
C11_ConfidenceIsMinimum ==
    /\ [](apc # "idle" =>
            /\ confidence = Least({ConfidenceOne} \cup FinalConfidences(Processed))
            /\ ConfidencesInRange => (0 <= confidence /\ confidence <= ConfidenceOne)
            /\ apc = "returned" =>
                  session_result.confidence =
                      Least({ConfidenceOne} \cup FinalConfidences(received)))
    /\ [][confidence' <= confidence]_vars

C11_Witness ==
    /\ apc = "returned"
    /\ Len(received) = MaxResponses
    /\ IsErrorFreeFinal(received[1])
    /\ received[1].results[1].alternatives[1].confidence = 80
    /\ IsErrorFreeFinal(received[2])
    /\ received[2].results[1].alternatives[1].confidence = 90
    /\ session_result.confidence = 80

\* the (start, end) pairs of a sequence of words
Pairs(ws) == [i \in DOMAIN ws |-> <<ws[i].start_time, ws[i].end_time>>]

\* C12: the returned alignment is the accumulated pairs exactly when time
\* offsets are enabled and a pair was accumulated; otherwise (offsets disabled,
\* or no non-sentinel word in any final result) it is the placeholder [[]].
C12_FinalAlignment ==
    apc = "returned" =>
        LET pairs == Pairs(FinalWords(received))
        IN  /\ (time_offsets /\ pairs # <<>>) =>
                  (session_result.alignment = pairs /\ session_result.alignment = alignment)
            /\ ~(time_offsets /\ pairs # <<>>) =>
                  session_result.alignment = << <<>> >>
            /\ ~time_offsets => alignment = <<>>

C12_Witness ==
    /\ apc = "returned"
    /\ time_offsets
    /\ \E i \in DOMAIN received : IsErrorFreeFinal(received[i])
    /\ alignment = <<>>
    /\ session_result.alignment = << <<>> >>

\* an error-free response whose first result is not final
IsInterim(r) ==
    r.error.code = 0 /\ r.results # <<>> /\ ~r.results[1].is_final

\* the step that processes response r of kind K
Processes(K(_)) ==
    /\ received' # received
    /\ K(received'[Len(received')])

\* C13: processing an interim result changes neither the words, nor the
\* alignment, nor the confidence; a sequence of interim results only returns
\* transcript "", alignment [[]] and confidence 1.0.
C13_InterimNotAccumulated ==
    /\ [][Processes(IsInterim) =>
            UNCHANGED <<confirmed_results, alignment, confidence>>]_vars
    /\ []((apc = "returned" /\ \A i \in DOMAIN received : IsInterim(received[i])) =>
            session_result = [transcript |-> "", alignment |-> << <<>> >>,
                              confidence |-> ConfidenceOne])

C13_Witness ==
    /\ apc = "returned"
    /\ Len(received) = MaxResponses
    /\ \A i \in DOMAIN received : IsInterim(received[i])
    /\ session_result.transcript = ""

\* a response that carries an error code
CarriesError(r) == r.error.code # 0

\* C14: a response with an error code changes neither the words, nor the
\* alignment, nor the confidence, also when it carries a final result; the
\* loop goes on, and the responses after it are accumulated as without it.
C14_ErrorIsNotFatal ==
    /\ [][Processes(CarriesError) =>
            /\ UNCHANGED <<confirmed_results, alignment, confidence>>
            /\ apc' = "loop" /\ raised' = "none"]_vars
    /\ [](apc # "idle" =>
            confirmed_results =
                IF time_offsets
                THEN [i \in DOMAIN FinalWords(Processed) |-> FinalWords(Processed)[i].word]
                ELSE FinalTranscripts(Processed))

C14_Witness ==
    /\ apc = "loop"
    /\ Len(received) = 3
    /\ received[1] = Response(0, <<Result(TRUE, <<Hello>>)>>)
    /\ received[2] = Response(3, <<Result(TRUE, <<World>>)>>)
    /\ received[3] = Response(0, <<Result(TRUE, <<World>>)>>)
    /\ ~time_offsets
    /\ confirmed_results = <<"hello", "world">>
    /\ confidence = 80

----------------------------------------------------------------------------
\* Further properties of the request iterator

\* C15: no step decreases the cursor; every pull dispatched to
\* _normal_request advances it by exactly frame_samples_size (the pull of the
\* configuration request leaves it); an audio request carries the bytes from
\* the cursor it found, and no two audio requests share a byte.
C15_CursorAdvances ==
    /\ [][data_index' >= data_index]_vars
    /\ [](\A i \in DOMAIN log :
             /\ log[i].builder = "normal" =>
                   log[i].after = log[i].before + frame_samples_size
             /\ log[i].builder = "initial" => log[i].after = log[i].before
             /\ IsAudio(log[i].out) =>
                   (log[i].lo = log[i].before /\ log[i].hi <= log[i].after)
             /\ \A j \in DOMAIN log :
                   (i # j /\ IsAudio(log[i].out) /\ IsAudio(log[j].out)) =>
                       (log[i].hi <= log[j].lo \/ log[j].hi <= log[i].lo))
    /\ [](log # <<>> => data_index = log[Len(log)].after)

C15_Witness ==
    /\ frame_samples_size > 0
    /\ Len(log) >= 4
    /\ IsAudio(log[2].out) /\ IsAudio(log[3].out)
    /\ log[4].after = 3 * frame_samples_size
    /\ data_index = 3 * frame_samples_size

\* C17: with F > 0, every pull that takes effect after a pull that signalled
\* end-of-sequence signals it too, so no request of either kind follows, and
\* each such pull still advances the cursor by F.
C17_StopIsFinal ==
    frame_samples_size > 0 =>
        \A i, j \in DOMAIN log :
            (i < j /\ IsStop(log[i].out)) =>
                /\ IsStop(log[j].out)
                /\ log[j].after = log[j].before + frame_samples_size
                /\ log[j].after > log[j].before

C17_Witness ==
    /\ frame_samples_size > 0
    /\ Len(audio_content) > frame_samples_size
    /\ \E i, j \in DOMAIN log : i < j /\ IsStop(log[i].out) /\ IsStop(log[j].out)
    /\ data_index > Len(audio_content) + frame_samples_size

\* C18: with F > 0, every audio request carries exactly F bytes, the bytes
\* [lo, lo + F) of the buffer, and ends before the end of the buffer.
C18_FullFramesOnly ==
    frame_samples_size > 0 =>
        \A i \in DOMAIN log :
            IsAudio(log[i].out) =>
                /\ Len(log[i].out.audio_content) = frame_samples_size
                /\ log[i].hi - log[i].lo = frame_samples_size
                /\ 0 <= log[i].lo
                /\ log[i].hi < Len(audio_content)
                /\ log[i].out.audio_content =
                       SubSeq(audio_content, log[i].lo + 1, log[i].hi)

C18_Witness ==
    /\ frame_samples_size > 0
    /\ Stopped
    /\ Len(audio_content) % frame_samples_size = 1
    /\ \E i \in DOMAIN log : IsAudio(log[i].out)
    /\ Len(Payload(Len(log))) < Len(audio_content)

\* the frame rates whose frame size is positive, and the iterator having one
RatesWithFrames == { r \in FrameRates : FrameSamplesSize(r) > 0 }
HasFrames == audio_frame_rate \in RatesWithFrames

\* the requests handed out so far
Emitted == { i \in DOMAIN log : ~IsStop(log[i].out) }

\* C16: with F > 0 an iterator that keeps being pulled signals
\* end-of-sequence, after at most 1 + ceil(L/F) requests whatever the number
\* of pulls; the pull that signals it ends like any other (lock free again).
C16_EventuallyStops ==
    /\ HasFrames ~> Stopped
    /\ [](HasFrames <=> frame_samples_size > 0)
    /\ [](frame_samples_size > 0 =>
            Cardinality(Emitted) <= 1 + CeilDiv(Len(audio_content), frame_samples_size))
    /\ []((Stopped /\ InCritical = {}) => lock = NoThread)

C16_Witness ==
    /\ frame_samples_size > 0
    /\ Len(audio_content) > 2 * frame_samples_size
    /\ Stopped
    /\ Cardinality(Emitted) = 3
    /\ lock = NoThread

\* the threads whose pull has not taken effect yet
Pending == { t \in Threads : pc[t] \in {"acquire", "dispatch", "initial", "normal33", "normal34"} }

\* C19: the lock is free whenever no thread is inside the locked block, also
\* after a pull that signalled end-of-sequence; every call leaves exactly one
\* outcome (a request or end-of-sequence), and every thread that called next()
\* returns from it.
C19_NoPullBlocksForever ==
    /\ [](InCritical = {} => lock = NoThread)
    /\ [](Len(log) + Cardinality(Pending) = calls)
    /\ \A t \in Threads : (pc[t] # "idle") ~> (pc[t] = "idle")

C19_Witness ==
    /\ log # <<>>
    /\ IsStop(log[Len(log)].out)
    /\ lock = NoThread
    /\ \E t, u \in Threads : t # u /\ pc[t] = "acquire" /\ pc[u] = "acquire"

====
